---- MODULE Spec2Model ----
(***************************************************************************)
(* Model of Workout.py: the Workout / RunWorkout / SwimWorkout records,    *)
(* their setters, calorie computation, equality, text rendering, and the   *)
(* total_calories aggregate.                                               *)
(*                                                                         *)
(* Conventions                                                             *)
(*   - Python's None is the empty tuple, a present value x is <<x>>.       *)
(*   - A call's outcome is [err, val]: err = "none" and the returned value,*)
(*     or the name of the exception the call raises.                       *)
(*   - Instants are seconds since 1/1/2021 00:00; a timedelta is a number  *)
(*     of seconds.  The instants used are whole half hours, so the float   *)
(*     arithmetic of the source (x * seconds / 3600.0) is exact here.      *)
(*   - Text is a sequence of characters (one-character strings; an emoji   *)
(*     code point is written "U+xxxx").                                    *)
(*   - The fields of a record are written in the order of their first      *)
(*     occurrence in this module, which is the order TLC stores them in.   *)
(***************************************************************************)
EXTENDS Integers, Sequences, FiniteSets, TLC

VARIABLES w, workouts, last

vars == <<w, workouts, last>>

(***************************************************************************)
(* Bounds and input sets                                                   *)
(***************************************************************************)
MaxRouteLen == 3
MaxWorkouts == 3

TimeStrs == {"1/1/2021 3:30 PM", "1/1/2021 4:00 PM", "half past"}
CalVals == {100}
ElevVals == {0, 200}
PaceVals == {2, 3}
Points == {<<0, 0>>, <<0, 1>>}

None == <<>>
Some(x) == <<x>>

Ok(v) == [err |-> "none", val |-> v]
Raise(e) == [err |-> e, val |-> None]

RECURSIVE SeqsUpTo(_, _)
SeqsUpTo(S, n) ==
    IF n = 0 THEN {<<>>}
    ELSE LET shorter == SeqsUpTo(S, n - 1)
         IN shorter \cup {Append(q, x) : q \in shorter, x \in S}

Routes == {None} \cup {Some(q) : q \in SeqsUpTo(Points, MaxRouteLen)}
OptCals == {None} \cup {Some(c) : c \in CalVals}

(***************************************************************************)
(* External collaborators                                                  *)
(***************************************************************************)
\* dateutil's parser.parse on the strings the model uses: a date and time
\* gives its instant, "half past" is rejected.
parse(s) ==
    CASE s = "1/1/2021 3:30 PM" -> Ok(55800)
      [] s = "1/1/2021 4:00 PM" -> Ok(57600)
      [] OTHER                  -> Raise("ParseError")

Abs(x) == IF x < 0 THEN -x ELSE x

\* distance in whole kilometres between two grid points
gpsDistance(p, q) == Abs(p[1] - q[1]) + Abs(p[2] - q[2])

(***************************************************************************)
(* Class constants                                                         *)
(***************************************************************************)
Workout_cal_per_hr == 200
RunWorkout_cals_per_km == 100
SwimWorkout_cal_per_hr == 400

(***************************************************************************)
(* Constructors: the outcome's val is the new object                       *)
(***************************************************************************)
Workout_init(start, end, calories) ==
    LET s == parse(start)
        e == parse(end)
    IN IF s.err # "none" THEN Raise(s.err)
       ELSE IF e.err # "none" THEN Raise(e.err)
       ELSE Ok([start |-> s.val, end |-> e.val, calories |-> calories,
                cls |-> "Workout", icon |-> <<"U+1F613">>, kind |-> "Workout"])

RunWorkout_init(start, end, elev, calories, route_gps_points) ==
    LET base == Workout_init(start, end, calories)
    IN IF base.err # "none" THEN base
       ELSE Ok([start |-> base.val.start, end |-> base.val.end,
                calories |-> base.val.calories, cls |-> "RunWorkout",
                icon |-> <<"U+1F3C3", "U+1F3FD", "U+200D">>, kind |-> "Running",
                elev |-> elev, route_gps_points |-> route_gps_points])

SwimWorkout_init(start, end, pace, calories) ==
    LET base == Workout_init(start, end, calories)
    IN IF base.err # "none" THEN base
       ELSE Ok([start |-> base.val.start, end |-> base.val.end,
                calories |-> base.val.calories, cls |-> "SwimWorkout",
                icon |-> <<"U+1F3CA", "U+200D">>, kind |-> "Swimming",
                pace |-> pace])

(***************************************************************************)
(* get_duration and get_calories                                           *)
(***************************************************************************)
get_duration(self) == self.end - self.start

\* x * seconds / 3600.0, exact on the instants of the model
PerHour(rate, seconds) == (rate * seconds) \div 3600

\* mutant: the stored value is never consulted
Workout_get_calories_estimate(self) ==
    Ok(PerHour(Workout_cal_per_hr, self.end - self.start))

Workout_get_calories(self) ==
    IF self.calories = None
    THEN Ok(PerHour(Workout_cal_per_hr, self.end - self.start))
    ELSE Ok(self.calories[1])

\* mutant: the override uses the base class's rate
SwimWorkout_get_calories_base(self) ==
    IF self.calories = None
    THEN Ok(PerHour(Workout_cal_per_hr, self.end - self.start))
    ELSE Ok(self.calories[1])

SwimWorkout_get_calories(self) ==
    IF self.calories = None
    THEN Ok(PerHour(SwimWorkout_cal_per_hr, self.end - self.start))
    ELSE Ok(self.calories[1])

\* the loop of lines 122-124 over route[1:], from position i of the route
RECURSIVE RouteLoop(_, _, _, _)
RouteLoop(route, i, lastP, dist) ==
    IF i > Len(route) THEN dist
    ELSE RouteLoop(route, i + 1, route[i], dist + gpsDistance(lastP, route[i]))

\* mutant: a stored value takes precedence over the route
RunWorkout_get_calories_stored(self) ==
    IF self.calories # None THEN Ok(self.calories[1])
    ELSE IF self.route_gps_points # None
    THEN LET route == self.route_gps_points[1]
         IN IF Len(route) = 0
            THEN Raise("IndexError")
            ELSE Ok(RouteLoop(route, 2, route[1], 0) * RunWorkout_cals_per_km)
    ELSE Workout_get_calories(self)

\* mutant: the route is used only when it has two or more points
RunWorkout_get_calories_min2(self) ==
    IF self.route_gps_points # None /\ Len(self.route_gps_points[1]) >= 2
    THEN LET route == self.route_gps_points[1]
         IN Ok(RouteLoop(route, 2, route[1], 0) * RunWorkout_cals_per_km)
    ELSE Workout_get_calories(self)

RunWorkout_get_calories(self) ==
    IF self.route_gps_points # None
    THEN LET route == self.route_gps_points[1]
         IN IF Len(route) = 0
            THEN Raise("IndexError")     \* route_gps_points[0] on an empty list
            ELSE Ok(RouteLoop(route, 2, route[1], 0) * RunWorkout_cals_per_km)
    ELSE Workout_get_calories(self)

\* method dispatch on the object's class
get_calories(self) ==
    CASE self.cls = "RunWorkout"  -> RunWorkout_get_calories(self)
      [] self.cls = "SwimWorkout" -> SwimWorkout_get_calories(self)
      [] OTHER                    -> Workout_get_calories(self)

(***************************************************************************)
(* Equality                                                                *)
(***************************************************************************)
\* mutant: the stored calories are compared, not the derived ones
Workout_eq_stored(self, other) ==
    IF self.cls # other.cls THEN Ok(FALSE)
    ELSE IF self.start # other.start THEN Ok(FALSE)
    ELSE IF self.end # other.end THEN Ok(FALSE)
    ELSE IF self.kind # other.kind THEN Ok(FALSE)
    ELSE Ok(self.calories = other.calories)

\* Workout.__eq__: a chain of `and`, so get_calories is called only when the
\* class, start, end and kind agree, and an exception it raises propagates.
Workout_eq(self, other) ==
    IF self.cls # other.cls THEN Ok(FALSE)
    ELSE IF self.start # other.start THEN Ok(FALSE)
    ELSE IF self.end # other.end THEN Ok(FALSE)
    ELSE IF self.kind # other.kind THEN Ok(FALSE)
    ELSE LET mine == get_calories(self)
             theirs == get_calories(other)
         IN IF mine.err # "none" THEN Raise(mine.err)
            ELSE IF theirs.err # "none" THEN Raise(theirs.err)
            ELSE Ok(mine.val = theirs.val)

\* RunWorkout.__eq__: super().__eq__(other) and self.elev == other.elev
RunWorkout_eq(self, other) ==
    LET base == Workout_eq(self, other)
    IN IF base.err # "none" THEN base
       ELSE IF ~base.val THEN Ok(FALSE)
       ELSE Ok(self.elev = other.elev)

\* the expression a == b: Python tries the right operand's __eq__ first when
\* its class is a proper subclass of the left one's that overrides __eq__
eq(a, b) ==
    IF a.cls = "RunWorkout" THEN RunWorkout_eq(a, b)
    ELSE IF a.cls = "Workout" /\ b.cls = "RunWorkout" THEN RunWorkout_eq(b, a)
    ELSE Workout_eq(a, b)

(***************************************************************************)
(* total_calories                                                          *)
(***************************************************************************)
\* mutant: the base class's get_calories is called on every element
RECURSIVE TotalLoop_base(_, _, _)
TotalLoop_base(ws, i, cals) ==
    IF i > Len(ws) THEN Ok(cals)
    ELSE LET c == Workout_get_calories(ws[i])
         IN IF c.err # "none" THEN Raise(c.err)
            ELSE TotalLoop_base(ws, i + 1, cals + c.val)

\* the loop of lines 174-175 from position i of the list, cals accumulated
RECURSIVE TotalLoop(_, _, _)
TotalLoop(ws, i, cals) ==
    IF i > Len(ws) THEN Ok(cals)
    ELSE LET c == get_calories(ws[i])
         IN IF c.err # "none" THEN Raise(c.err)
            ELSE TotalLoop(ws, i + 1, cals + c.val)

total_calories(ws) == TotalLoop(ws, 1, 0)

(***************************************************************************)
(* __str__                                                                 *)
(***************************************************************************)
\* ch * n, the empty text when n <= 0
Repeat(ch, n) == IF n <= 0 THEN <<>> ELSE [i \in 1..n |-> ch]
Spaces(n) == Repeat(" ", n)

DigitChar == <<"0", "1", "2", "3", "4", "5", "6", "7", "8", "9">>

RECURSIVE Digits(_)
Digits(n) ==
    IF n < 10 THEN <<DigitChar[n + 1]>>
    ELSE Append(Digits(n \div 10), DigitChar[(n % 10) + 1])

\* "%d"
IntStr(n) == IF n < 0 THEN <<"-">> \o Digits(-n) ELSE Digits(n)

\* "%02d" of 0..59
Pad2(n) == IF n < 10 THEN <<"0">> \o Digits(n) ELSE Digits(n)

\* str(datetime.timedelta): "[D day[s], ]H:MM:SS", days floored
timedelta_str(td) ==
    LET days == td \div 86400
        secs == td % 86400
        hh == secs \div 3600
        mm == (secs % 3600) \div 60
        ss == secs % 60
        hms == IntStr(hh) \o <<":">> \o Pad2(mm) \o <<":">> \o Pad2(ss)
    IN IF days # 0
       THEN IntStr(days) \o <<" ", "d", "a", "y">>
            \o (IF Abs(days) # 1 THEN <<"s">> ELSE <<>>) \o <<",", " ">> \o hms
       ELSE hms

\* the type of the number get_calories returns: a float on the duration
\* estimate and on a route of two or more points, an int for the stored
\* value (the callers of the model pass ints) and for a one-point route
calories_is_float(self) ==
    IF self.cls = "RunWorkout" /\ self.route_gps_points # None
    THEN Len(self.route_gps_points[1]) >= 2
    ELSE self.calories = None

\* f"{round(x, 1)}" of a whole number x
cal_str_of(x, isFloat) == IF isFloat THEN IntStr(x) \o <<".", "0">> ELSE IntStr(x)

KindChars(kind) ==
    CASE kind = "Workout"  -> <<"W", "o", "r", "k", "o", "u", "t">>
      [] kind = "Running"  -> <<"R", "u", "n", "n", "i", "n", "g">>
      [] kind = "Swimming" -> <<"S", "w", "i", "m", "m", "i", "n", "g">>

width == 16

\* the lines of the text, each with its two border characters
Workout_str(self) ==
    LET kind == KindChars(self.kind)
        duration_str == timedelta_str(get_duration(self))
        cals == get_calories(self)
    IN IF cals.err # "none" THEN Raise(cals.err)
       ELSE LET cal_str == cal_str_of(cals.val, calories_is_float(self))
            IN Ok(<< <<"|">> \o Repeat("-", width) \o <<"|">>,
                     <<"|">> \o Spaces(width) \o <<"|">>,
                     <<"|", " ">> \o self.icon \o Spaces(width - 3) \o <<"|">>,
                     <<"|", " ">> \o kind \o Spaces(width - Len(kind) - 1) \o <<"|">>,
                     <<"|">> \o Spaces(width) \o <<"|">>,
                     <<"|", " ">> \o duration_str
                         \o Spaces(width - Len(duration_str) - 1) \o <<"|">>,
                     <<"|", " ">> \o cal_str
                         \o <<" ", "C", "a", "l", "o", "r", "i", "e", "s", " ">>
                         \o Spaces(width - Len(cal_str) - 11) \o <<"|">>,
                     <<"|">> \o Spaces(width) \o <<"|">>,
                     <<"|">> \o Repeat("_", width) \o <<"|">> >>)

(***************************************************************************)
(* Setters: the object after the call and the call's outcome               *)
(***************************************************************************)
set_calories(self, calories) ==
    [self |-> [self EXCEPT !.calories = calories], out |-> Ok(None)]

\* mutant: the field is cleared before the string is parsed
set_start_clear(self, start) ==
    LET p == parse(start)
    IN IF p.err # "none" THEN [self |-> [self EXCEPT !.start = 0], out |-> Raise(p.err)]
       ELSE [self |-> [self EXCEPT !.start = p.val], out |-> Ok(None)]

set_start(self, start) ==
    LET p == parse(start)
    IN IF p.err # "none" THEN [self |-> self, out |-> Raise(p.err)]
       ELSE [self |-> [self EXCEPT !.start = p.val], out |-> Ok(None)]

set_end(self, end) ==
    LET p == parse(end)
    IN IF p.err # "none" THEN [self |-> self, out |-> Raise(p.err)]
       ELSE [self |-> [self EXCEPT !.end = p.val], out |-> Ok(None)]

set_elev(self, e) ==
    [self |-> [self EXCEPT !.elev = e], out |-> Ok(None)]

(***************************************************************************)
(* Every record the constructors can return on the inputs of the model     *)
(***************************************************************************)
Returned(outcomes) == {o.val : o \in {x \in outcomes : x.err = "none"}}

Constructible ==
    Returned({Workout_init(s, e, c) : s \in TimeStrs, e \in TimeStrs, c \in OptCals}
             \cup UNION {{RunWorkout_init(s, e, el, c, r) : s \in TimeStrs, e \in TimeStrs,
                                                           r \in Routes}
                         : el \in ElevVals, c \in OptCals}
             \cup UNION {{SwimWorkout_init(s, e, p, c) : s \in TimeStrs, e \in TimeStrs,
                                                        c \in OptCals}
                         : p \in PaceVals})

(***************************************************************************)
(* State machine of one record: w is the caller's variable (None before    *)
(* the first construction), last is the call made last and how it ended    *)
(***************************************************************************)
Call(op, err) == [err |-> err, op |-> op]

Init ==
    /\ w = None
    /\ workouts = <<>>
    /\ last = Call("start", "none")

\* w = Class(...): the variable is bound only if the constructor returns
Construct(op, o) ==
    /\ w' = IF o.err = "none" THEN Some(o.val) ELSE w
    /\ last' = Call(op, o.err)
    /\ UNCHANGED workouts

NewWorkout ==
    \E s \in TimeStrs, e \in TimeStrs, c \in OptCals :
        Construct("Workout", Workout_init(s, e, c))

NewRunWorkout ==
    \E s \in TimeStrs, e \in TimeStrs, el \in ElevVals, c \in OptCals, r \in Routes :
        Construct("RunWorkout", RunWorkout_init(s, e, el, c, r))

NewSwimWorkout ==
    \E s \in TimeStrs, e \in TimeStrs, p \in PaceVals, c \in OptCals :
        Construct("SwimWorkout", SwimWorkout_init(s, e, p, c))

Mutate(op, res) ==
    /\ w' = Some(res.self)
    /\ last' = Call(op, res.out.err)
    /\ UNCHANGED workouts

SetCalories ==
    /\ w # None
    /\ \E c \in OptCals : Mutate("set_calories", set_calories(w[1], c))

SetStart ==
    /\ w # None
    /\ \E s \in TimeStrs : Mutate("set_start", set_start(w[1], s))

SetEnd ==
    /\ w # None
    /\ \E s \in TimeStrs : Mutate("set_end", set_end(w[1], s))

SetElev ==
    /\ w # None
    /\ w[1].cls = "RunWorkout"
    /\ \E e \in ElevVals : Mutate("set_elev", set_elev(w[1], e))

\* the read-only calls
GetCalories ==
    /\ w # None
    /\ last' = Call("get_calories", get_calories(w[1]).err)
    /\ UNCHANGED <<w, workouts>>

\* w == other, for any record other
Equals ==
    /\ w # None
    /\ \E other \in Constructible : last' = Call("eq", eq(w[1], other).err)
    /\ UNCHANGED <<w, workouts>>

Str ==
    /\ w # None
    /\ last' = Call("str", Workout_str(w[1]).err)
    /\ UNCHANGED <<w, workouts>>

Next ==
    \/ NewWorkout
    \/ NewRunWorkout
    \/ NewSwimWorkout
    \/ SetCalories
    \/ SetStart
    \/ SetEnd
    \/ SetElev
    \/ GetCalories
    \/ Equals
    \/ Str

Spec == Init /\ [][Next]_vars

(***************************************************************************)
(* State machine of a collection: workouts is the caller's list, built by  *)
(* appending new records, and total_calories is called on it               *)
(***************************************************************************)
\* the arguments the records of the collection are built from
AggStart == "1/1/2021 3:30 PM"
AggEnd == "1/1/2021 4:00 PM"
AggRoutes == {None, Some(<<>>), Some(<<<<0, 0>>, <<0, 1>>, <<0, 0>>>>)}

InitAgg == Init

Add(op, o) ==
    /\ Len(workouts) < MaxWorkouts
    /\ o.err = "none"
    /\ workouts' = Append(workouts, o.val)
    /\ last' = Call(op, "none")
    /\ UNCHANGED w

AddWorkout ==
    \E c \in OptCals : Add("Workout", Workout_init(AggStart, AggEnd, c))

AddRunWorkout ==
    \E el \in ElevVals, c \in OptCals, r \in AggRoutes :
        Add("RunWorkout", RunWorkout_init(AggStart, AggEnd, el, c, r))

AddSwimWorkout ==
    \E p \in PaceVals, c \in OptCals :
        Add("SwimWorkout", SwimWorkout_init(AggStart, AggEnd, p, c))

TotalCalories ==
    /\ last' = Call("total_calories", total_calories(workouts).err)
    /\ UNCHANGED <<w, workouts>>

NextAgg ==
    \/ AddWorkout
    \/ AddRunWorkout
    \/ AddSwimWorkout
    \/ TotalCalories

SpecAgg == InitAgg /\ [][NextAgg]_vars

TypeOK ==
    /\ w # None => w[1] \in Constructible
    /\ last.err \in {"none", "ParseError", "IndexError"}

(***************************************************************************)
(* Properties                                                              *)
(***************************************************************************)
IsRun(r) == r.cls = "RunWorkout"
RoutePresent(r) == IsRun(r) /\ r.route_gps_points # None
RouteOf(r) == r.route_gps_points[1]
Returns(o, v) == o.err = "none" /\ o.val = v
IsTrue(o) == o.err = "none" /\ o.val
IsFalse(o) == o.err = "none" /\ ~o.val

\* the sum of gpsDistance over the consecutive pairs of a route
RECURSIVE PairSum(_)
PairSum(route) ==
    IF Len(route) < 2 THEN 0
    ELSE gpsDistance(route[1], route[2]) + PairSum(Tail(route))

\* C1 as stated, on the records for which get_calories returns: a record
\* with stored calories c returns c from get_calories, except a RunWorkout
\* whose route is present with at least 2 points.
C1_Original ==
    (/\ w # None
     /\ w[1].calories # None
     /\ get_calories(w[1]).err = "none"
     /\ ~(RoutePresent(w[1]) /\ Len(RouteOf(w[1])) >= 2))
        => get_calories(w[1]).val = w[1].calories[1]

\* C1 amended: a record with stored calories c returns exactly c from
\* get_calories, for the three classes, except a RunWorkout whose route is
\* present (of any length).
C1_ExplicitCalories ==
    (w # None /\ w[1].calories # None /\ ~RoutePresent(w[1]))
        => Returns(get_calories(w[1]), w[1].calories[1])

C1_Witness ==
    /\ w # None
    /\ last.op = "get_calories"
    /\ IsRun(w[1])
    /\ w[1].route_gps_points = None
    /\ w[1].calories = Some(100)

\* C2: for a RunWorkout whose route has at least 2 points, get_calories is
\* 100 times the sum of gpsDistance over the consecutive pairs, and no
\* set_calories, set_start or set_end call changes it.
C2_RouteCalories ==
    (w # None /\ RoutePresent(w[1]) /\ Len(RouteOf(w[1])) >= 2)
        => /\ Returns(get_calories(w[1]), 100 * PairSum(RouteOf(w[1])))
           /\ \A c \in OptCals :
                 get_calories(set_calories(w[1], c).self) = get_calories(w[1])
           /\ \A s \in TimeStrs :
                 /\ get_calories(set_start(w[1], s).self) = get_calories(w[1])
                 /\ get_calories(set_end(w[1], s).self) = get_calories(w[1])

C2_Witness ==
    /\ w # None
    /\ last.op = "set_calories"
    /\ RoutePresent(w[1])
    /\ Len(RouteOf(w[1])) = 3
    /\ w[1].calories = Some(100)
    /\ Returns(get_calories(w[1]), 200)

\* C3: with no stored calories and, for a RunWorkout, no route, get_calories
\* is rate * (end - start in hours), the rate being 200 for Workout and
\* RunWorkout and 400 for SwimWorkout; negative durations included, the pace
\* without effect.
ClaimedRate(r) == IF r.cls = "SwimWorkout" THEN 400 ELSE 200

C3_Estimate ==
    (w # None /\ w[1].calories = None /\ ~RoutePresent(w[1]))
        => /\ get_calories(w[1]).err = "none"
           /\ get_calories(w[1]).val * 3600 = ClaimedRate(w[1]) * (w[1].end - w[1].start)

C3_Witness ==
    /\ w # None
    /\ last.op = "get_calories"
    /\ w[1].cls = "SwimWorkout"
    /\ w[1].calories = None
    /\ w[1].end < w[1].start
    /\ Returns(get_calories(w[1]), -200)

\* C4 as stated, on the records for which get_calories returns: a RunWorkout
\* uses the route distance only if the route has at least 2 points, and in
\* all other cases returns what Workout.get_calories returns.
C4_Original ==
    (w # None /\ IsRun(w[1]) /\ get_calories(w[1]).err = "none")
        => IF RoutePresent(w[1]) /\ Len(RouteOf(w[1])) >= 2
           THEN Returns(get_calories(w[1]), 100 * PairSum(RouteOf(w[1])))
           ELSE get_calories(w[1]) = Workout_get_calories(w[1])

\* C4 amended: a RunWorkout returns what Workout.get_calories returns only
\* when the route is absent; whenever the route is present the route is
\* used: with 1 or more points the result is 100 times the cumulative
\* distance (0 for a single point), and on the empty route the call raises
\* IndexError.
C4_RouteWhenPresent ==
    (w # None /\ IsRun(w[1]))
        => IF w[1].route_gps_points = None
           THEN get_calories(w[1]) = Workout_get_calories(w[1])
           ELSE IF Len(RouteOf(w[1])) >= 1
           THEN Returns(get_calories(w[1]), 100 * PairSum(RouteOf(w[1])))
           ELSE get_calories(w[1]).err = "IndexError"

C4_Witness ==
    /\ w # None
    /\ last.op = "get_calories"
    /\ RoutePresent(w[1])
    /\ Len(RouteOf(w[1])) = 1
    /\ w[1].calories = Some(100)
    /\ Returns(get_calories(w[1]), 0)

\* C5: for a RunWorkout whose route is present with fewer than 2 points
\* (one point, or none), get_calories raises no error and returns 0.
C5_ShortRouteIsZero ==
    (w # None /\ RoutePresent(w[1]) /\ Len(RouteOf(w[1])) < 2)
        => Returns(get_calories(w[1]), 0)

\* C6: a == b is true if and only if the two records have the same class,
\* equal start, end and kind, equal get_calories results and, when both are
\* RunWorkout, equal elev; pace and route are not compared.
EqualAsClaimed(a, b) ==
    /\ a.cls = b.cls
    /\ a.start = b.start
    /\ a.end = b.end
    /\ a.kind = b.kind
    /\ get_calories(a).err = "none"
    /\ get_calories(b).err = "none"
    /\ get_calories(a).val = get_calories(b).val
    /\ (IsRun(a) /\ IsRun(b)) => a.elev = b.elev

\* (w takes every constructible value, so the pairs (w, other) are all the
\* ordered pairs of records)
C6_EqualityIff ==
    w # None =>
        \A other \in Constructible :
            IsTrue(eq(w[1], other)) <=> EqualAsClaimed(w[1], other)

C6_Witness ==
    /\ w # None
    /\ last.op = "eq"
    /\ IsRun(w[1])
    /\ w[1].route_gps_points = None
    /\ w[1].calories = Some(100)
    /\ \E other \in Constructible :
          /\ RoutePresent(other)
          /\ other.calories = None
          /\ IsTrue(eq(w[1], other))

\* C7: equality is reflexive for every constructible record, symmetric for
\* any two records, and false between records of different classes.
C7_ReflexiveSymmetric ==
    w # None =>
        /\ IsTrue(eq(w[1], w[1]))
        /\ \A other \in Constructible :
              /\ eq(w[1], other).err = eq(other, w[1]).err
              /\ eq(w[1], other).err = "none" => eq(w[1], other).val = eq(other, w[1]).val
              /\ w[1].cls # other.cls => IsFalse(eq(w[1], other))

\* C8: total_calories returns the sum of every element's own get_calories
\* (0 for the empty list; an exception of an element propagates), and the
\* call modifies no record.
RECURSIVE SumOfCalories(_)
SumOfCalories(ws) ==
    IF ws = <<>> THEN 0
    ELSE get_calories(Head(ws)).val + SumOfCalories(Tail(ws))

AllReturn(ws) == \A i \in 1..Len(ws) : get_calories(ws[i]).err = "none"

TotalIsSum ==
    IF AllReturn(workouts)
    THEN Returns(total_calories(workouts), SumOfCalories(workouts))
    ELSE total_calories(workouts).err = "IndexError"

C8_TotalCalories ==
    /\ []TotalIsSum
    /\ [][last'.op = "total_calories" => workouts' = workouts]_vars

C8_Witness ==
    /\ last = Call("total_calories", "none")
    /\ Len(workouts) = 3
    /\ {workouts[i].cls : i \in 1..3} = {"Workout", "RunWorkout", "SwimWorkout"}
    /\ \E i \in 1..3 : workouts[i].cls = "SwimWorkout" /\ workouts[i].calories = None
    /\ \E i \in 1..3 : RoutePresent(workouts[i]) /\ workouts[i].calories # None
    /\ Returns(total_calories(workouts), 500)

\* C9: set_start or set_end with a string the parser rejects raises
\* ParseError and leaves the record exactly as it was, so get_calories and
\* get_duration return what they returned before.
Rejected == {s \in TimeStrs : parse(s).err # "none"}

FailedSetKeepsRecord ==
    w # None =>
        \A s \in Rejected :
            /\ set_start(w[1], s).out.err = "ParseError"
            /\ set_end(w[1], s).out.err = "ParseError"
            /\ set_start(w[1], s).self = w[1]
            /\ set_end(w[1], s).self = w[1]

C9_FailedSetKeepsRecord ==
    /\ []FailedSetKeepsRecord
    /\ [][(last'.op \in {"set_start", "set_end"} /\ last'.err = "ParseError")
            => /\ w' = w
               /\ get_calories(w'[1]) = get_calories(w[1])
               /\ get_duration(w'[1]) = get_duration(w[1])]_vars

C9_Witness ==
    /\ w # None
    /\ last = Call("set_start", "ParseError")
    /\ w[1].start # w[1].end

\* C10: every line of the text of __str__ has exactly 16 characters between
\* its two border characters, for every duration and every calorie value
\* (stated for all lines but the icon line, whose width on screen is not its
\* count of code points).
C10_FixedWidth ==
    (w # None /\ Workout_str(w[1]).err = "none")
        => \A i \in (1..9) \ {3} : Len(Workout_str(w[1]).val[i]) = 16 + 2

====
